---- MODULE Spec2Model ----
(***************************************************************************)
(* A model of src/app.py, the inference engine of the Geotechnical Report  *)
(* Analyzer: USCS frequency table, drainage verdict, groundwater verdict,  *)
(* boring / CPT segmentation and the shallow-refusal counters.             *)
(*                                                                         *)
(* Text.  A document text is a sequence of SYMBOLS.  A symbol is a string: *)
(* a single character ("5", " ", ".", "-", the newline) or a whole word    *)
(* ("refusal", "LOG").  The rendering of a text is the concatenation of    *)
(* its symbols, and SymLen gives the number of characters of each, so the  *)
(* character windows of the patterns ({0,60}, {0,160}, ...) count          *)
(* characters as the source does.  The documents drawn by the Init         *)
(* predicates are built from words none of which holds a pattern literal   *)
(* strictly inside it in a place where that literal could match, so that a *)
(* match can only begin and end between symbols.                           *)
(*                                                                         *)
(* Patterns.  Every regular expression of the source is a sequence of      *)
(* nodes, run by Match, a backtracking matcher with the priorities of      *)
(* Python's re: alternatives left to right, greedy repeats longest first,  *)
(* lazy repeats shortest first, first success wins.                        *)
(*                                                                         *)
(* Numbers.  Depths and percents are decimals with two places, held as     *)
(* integers in hundredths (5.0 ft is 500, 66.67 % is 6667); the refusal    *)
(* percent, rounded to one place by the source, is held in tenths.         *)
(***************************************************************************)
EXTENDS Integers, Sequences, FiniteSets, TLC

VARIABLES
    doc,        \* the document as drawn: a sequence of phrases
    text,       \* Document Text: the sequence of symbols all analyzers read
    pc,         \* position of the run: "start", then one value per call made
    flag,       \* collapse_compounds as passed to extract_uscs_frequencies
    uscs_df,    \* result of extract_uscs_frequencies (<<>> : the empty table)
    drainage,   \* result of drainage_from_uscs_percentages
    gw,         \* result of find_groundwater
    yielded,    \* the Sections the segmenter yielded to the last refusal count
    bor,        \* result of count_boring_refusals_under_8ft
    cpt         \* result of count_cpt_refusals_under_8ft

vars == <<doc, text, pc, flag, uscs_df, drainage, gw, yielded, bor, cpt>>

-----------------------------------------------------------------------------
(* Symbols and characters *)

NL == "\n"

\* number of characters of a symbol
SymLen(s) == IF s = NL THEN 1 ELSE Len(s)

Digits == {"0", "1", "2", "3", "4", "5", "6", "7", "8", "9"}

\* symbols made of non-word characters only (\W)
NonWordSyms == {" ", NL, ".", "-", ",", "<", "~", ">"}

\* symbols that end in a non-word character although they start with a word one
EndsNonWord == {"GEO-", "geo-", "Geo-"}

WordFirst(s) == s \notin NonWordSyms
WordLast(s) == s \notin NonWordSyms /\ s \notin EndsNonWord

\* str.lower / str.upper, and the folding of re.IGNORECASE, on the words of the
\* documents that are not already in the wanted case
LowerMap ==
    [s \in {"Groundwater", "GROUNDWATER", "Water", "WATER", "Table", "TABLE", "Was", "WAS",
            "Not", "NOT", "Encountered", "ENCOUNTERED", "At", "AT", "Ft", "FT",
            "LOG", "Log", "OF", "Of", "BORING", "Boring", "CPT", "Cpt", "SOUNDING",
            "Sounding", "RESULTS", "Results", "ID", "GEO-", "Geo-", "Appendix",
            "APPENDIX", "Refusal", "REFUSAL", "Soil", "Borings", "CPT", "Table",
            "Shallow", "Depths", "A", "Feet", "FEET",
            "GW", "GP", "GM", "GC", "SW", "SP", "SM", "SC", "ML", "CL", "MH", "CH",
            "OL", "OH", "PT", "Gw", "Sand", "SAND", "Silty", "Clay"} |->
        CASE s \in {"Groundwater", "GROUNDWATER"} -> "groundwater"
          [] s \in {"Water", "WATER"} -> "water"
          [] s \in {"Table", "TABLE"} -> "table"
          [] s \in {"Was", "WAS"} -> "was"
          [] s \in {"Not", "NOT"} -> "not"
          [] s \in {"Encountered", "ENCOUNTERED"} -> "encountered"
          [] s \in {"At", "AT"} -> "at"
          [] s \in {"Ft", "FT"} -> "ft"
          [] s \in {"Feet", "FEET"} -> "feet"
          [] s \in {"LOG", "Log"} -> "log"
          [] s \in {"OF", "Of"} -> "of"
          [] s \in {"BORING", "Boring"} -> "boring"
          [] s \in {"CPT", "Cpt"} -> "cpt"
          [] s \in {"SOUNDING", "Sounding"} -> "sounding"
          [] s \in {"RESULTS", "Results"} -> "results"
          [] s = "ID" -> "id"
          [] s \in {"GEO-", "Geo-"} -> "geo-"
          [] s \in {"Appendix", "APPENDIX"} -> "appendix"
          [] s \in {"Refusal", "REFUSAL"} -> "refusal"
          [] s = "Soil" -> "soil"
          [] s = "Borings" -> "borings"
          [] s = "Shallow" -> "shallow"
          [] s = "Depths" -> "depths"
          [] s = "A" -> "a"
          [] s \in {"GW", "Gw"} -> "gw"
          [] s = "GP" -> "gp"
          [] s = "GM" -> "gm"
          [] s = "GC" -> "gc"
          [] s = "SW" -> "sw"
          [] s = "SP" -> "sp"
          [] s = "SM" -> "sm"
          [] s = "SC" -> "sc"
          [] s = "ML" -> "ml"
          [] s = "CL" -> "cl"
          [] s = "MH" -> "mh"
          [] s = "CH" -> "ch"
          [] s = "OL" -> "ol"
          [] s = "OH" -> "oh"
          [] s = "PT" -> "pt"
          [] s \in {"Sand", "SAND"} -> "sand"
          [] s = "Silty" -> "silty"
          [] s = "Clay" -> "clay"]

UpperMap ==
    [s \in {"gw", "Gw", "gp", "gm", "gc", "sw", "sp", "sm", "sc", "ml", "cl", "mh", "ch",
            "ol", "oh", "pt", "geo-", "Geo-", "soil", "Soil", "sand", "Sand"} |->
        CASE s \in {"gw", "Gw"} -> "GW"
          [] s = "gp" -> "GP"
          [] s = "gm" -> "GM"
          [] s = "gc" -> "GC"
          [] s = "sw" -> "SW"
          [] s = "sp" -> "SP"
          [] s = "sm" -> "SM"
          [] s = "sc" -> "SC"
          [] s = "ml" -> "ML"
          [] s = "cl" -> "CL"
          [] s = "mh" -> "MH"
          [] s = "ch" -> "CH"
          [] s = "ol" -> "OL"
          [] s = "oh" -> "OH"
          [] s = "pt" -> "PT"
          [] s \in {"geo-", "Geo-"} -> "GEO-"
          [] s \in {"soil", "Soil"} -> "SOIL"
          [] s \in {"sand", "Sand"} -> "SAND"]

LowerSym(s) == IF s \in DOMAIN LowerMap THEN LowerMap[s] ELSE s
UpperSym(s) == IF s \in DOMAIN UpperMap THEN UpperMap[s] ELSE s

\* str.lower() and str.upper() of a text
lower(t) == [i \in 1..Len(t) |-> LowerSym(t[i])]
upper(t) == [i \in 1..Len(t) |-> UpperSym(t[i])]

-----------------------------------------------------------------------------
(* The pattern nodes (module re) *)

Lit(s) == [k |-> "lit", s |-> s]                                   \* a literal word or character
Rep(c, lo, hi) == [k |-> "rep", c |-> c, min |-> lo, max |-> hi, unb |-> FALSE, lazy |-> FALSE]   \* c{lo,hi}
RepLazy(c, lo, hi) == [k |-> "rep", c |-> c, min |-> lo, max |-> hi, unb |-> FALSE, lazy |-> TRUE] \* c{lo,hi}?
Star(c) == [k |-> "rep", c |-> c, min |-> 0, max |-> 0, unb |-> TRUE, lazy |-> FALSE]     \* c*
Plus(c) == [k |-> "rep", c |-> c, min |-> 1, max |-> 0, unb |-> TRUE, lazy |-> FALSE]     \* c+
StarLazy(c) == [k |-> "rep", c |-> c, min |-> 0, max |-> 0, unb |-> TRUE, lazy |-> TRUE]  \* c*?
Alt(bs) == [k |-> "alt", bs |-> bs]                                \* (?:b1|b2|...), each a node sequence
Opt(b) == [k |-> "alt", bs |-> <<b, <<>>>>]                        \* (?:b)?
Open(g) == [k |-> "open", g |-> g]                                 \* the "(" of group g
Close(g) == [k |-> "close", g |-> g]                               \* the ")" of group g
Look(b) == [k |-> "look", b |-> b]                                 \* (?=b)
WordB == [k |-> "wb"]                                              \* \b
Eos == [k |-> "eos"]                                               \* $

\* character classes:  "any" is . under DOTALL, "line" is [^.\n], "space" is \s,
\* "digit" is \d
InClass(s, c) ==
    CASE c = "any" -> TRUE
      [] c = "line" -> s # "." /\ s # NL
      [] c = "space" -> s \in {" ", NL}
      [] c = "digit" -> s \in Digits

\* \b at position i (between t[i-1] and t[i])
WordBoundary(t, i) ==
    LET before == i > 1 /\ WordLast(t[i - 1])
        after == i <= Len(t) /\ WordFirst(t[i])
    IN before # after

\* $ without MULTILINE: the end of the text, or just before a newline that ends it
AtEnd(t, i) == i = Len(t) + 1 \/ (i = Len(t) /\ t[i] = NL)

\* The value of a one-element set.  The({F(x) : x \in {e}}) is F(e) with e
\* evaluated once, where a LET or an argument would evaluate e at every use.
The(S) == CHOOSE x \in S : TRUE

NoMatch == [ok |-> FALSE]
NoCaps == [g \in {1, 2} |-> [s |-> 0, e |-> 0]]

Min(S) == CHOOSE x \in S : \A y \in S : x <= y
Max(S) == CHOOSE x \in S : \A y \in S : x >= y

\* the number of characters of the k symbols of t from position i on
RECURSIVE Chars(_, _, _)
Chars(t, i, k) == IF k = 0 THEN 0 ELSE SymLen(t[i]) + Chars(t, i + 1, k - 1)

\* The numbers of symbols a repeat of class c may take at position i: runs of
\* symbols of the class, of lo to hi characters (no upper limit when unb).
Takes(t, i, c, lo, hi, unb) ==
    LET stops == {j \in i..Len(t) : ~InClass(t[j], c)}
        longest == IF stops = {} THEN Len(t) - i + 1 ELSE Min(stops) - i
    IN {k \in 0..longest :
          /\ lo <= 0 \/ Chars(t, i, k) >= lo
          /\ unb \/ Chars(t, i, k) <= hi}

\* the result tried under key k
Pick(tries, k) == (CHOOSE p \in tries : p[1] = k)[2]

\* the first success of the results tried, in the order of their keys (the
\* reverse order when ~least); NoMatch when none succeeded
First(tries, least) ==
    IF \A p \in tries : ~p[2].ok THEN NoMatch
    ELSE LET good == {p[1] : p \in {q \in tries : q[2].ok}}
         IN Pick(tries, IF least THEN Min(good) ELSE Max(good))

RECURSIVE Match(_, _, _, _, _)

\* the node n, and then the nodes rest, matched at position i
MatchNode(t, ic, n, rest, i, caps) ==
    CASE n.k = "lit" ->
           IF i <= Len(t) /\ (IF ic THEN LowerSym(t[i]) = LowerSym(n.s) ELSE t[i] = n.s)
           THEN Match(t, ic, rest, i + 1, caps)
           ELSE NoMatch
      [] n.k = "rep" ->
           The({First(tries, n.lazy) :
                tries \in {{<<k, Match(t, ic, rest, i + k, caps)>> :
                              k \in Takes(t, i, n.c, n.min, n.max, n.unb)}}})
      [] n.k = "alt" ->
           The({First(tries, TRUE) :
                tries \in {{<<b, Match(t, ic, n.bs[b] \o rest, i, caps)>> : b \in 1..Len(n.bs)}}})
      [] n.k = "open" -> Match(t, ic, rest, i, [caps EXCEPT ![n.g].s = i])
      [] n.k = "close" -> Match(t, ic, rest, i, [caps EXCEPT ![n.g].e = i])
      [] n.k = "look" ->
           IF Match(t, ic, n.b, i, caps).ok THEN Match(t, ic, rest, i, caps) ELSE NoMatch
      [] n.k = "wb" -> IF WordBoundary(t, i) THEN Match(t, ic, rest, i, caps) ELSE NoMatch
      [] n.k = "eos" -> IF AtEnd(t, i) THEN Match(t, ic, rest, i, caps) ELSE NoMatch

\* The text t matched against the node sequence from position i on; ic is
\* re.IGNORECASE.  [ok, end, caps]: end is the position after the match and
\* caps[g] the span [s, e) of group g.  The result is the first success in the
\* order a backtracking matcher tries: a lazy repeat takes the fewest symbols
\* that let the rest match, a greedy one the most, an alternation its first
\* branch that lets the rest match.
Match(t, ic, nodes, i, caps) ==
    The({IF a.nodes = <<>> THEN [ok |-> TRUE, end |-> a.i, caps |-> a.caps]
         ELSE MatchNode(a.t, a.ic, Head(a.nodes), Tail(a.nodes), a.i, a.caps) :
         a \in {[t |-> t, ic |-> ic, nodes |-> nodes, i |-> i, caps |-> caps]}})

\* re.search from position from on: the leftmost start that matches
SearchFrom(t, ic, nodes, from) ==
    The({IF \A p \in tries : ~p[2].ok THEN NoMatch
         ELSE LET starts == {p[1] : p \in {q \in tries : q[2].ok}}
                  m == Pick(tries, Min(starts))
              IN [ok |-> TRUE, start |-> Min(starts), end |-> m.end, caps |-> m.caps] :
         tries \in {{<<i, Match(t, ic, nodes, i, NoCaps)>> : i \in from..(Len(t) + 1)}}})

Search(t, ic, nodes) == SearchFrom(t, ic, nodes, 1)

\* re.finditer: the non-overlapping matches, left to right
RECURSIVE FindIterFrom(_, _, _, _)
FindIterFrom(t, ic, nodes, from) ==
    The({IF ~m.ok THEN <<>>
         ELSE <<m>> \o FindIterFrom(t, ic, nodes, IF m.end > m.start THEN m.end ELSE m.end + 1) :
         m \in {SearchFrom(t, ic, nodes, from)}})

FindIter(t, ic, nodes) == The({FindIterFrom(tt, ic, nodes, 1) : tt \in {t}})

\* m.group(g): the symbols of the span
Group(t, m, g) == SubSeq(t, m.caps[g].s, m.caps[g].e - 1)

\* a phrase of words separated by one space
RECURSIVE Words(_)
Words(ws) ==
    IF Len(ws) <= 1 THEN ws ELSE <<Head(ws), " ">> \o Words(Tail(ws))

\* the literals of a phrase, its spaces as literals too
RECURSIVE Lits(_)
Lits(ss) == IF ss = <<>> THEN <<>> ELSE <<Lit(Head(ss))>> \o Lits(Tail(ss))

\* the literals of a phrase whose words are separated by \s+
RECURSIVE LitsWs(_)
LitsWs(ws) ==
    IF Len(ws) <= 1 THEN Lits(ws)
    ELSE <<Lit(Head(ws)), Plus("space")>> \o LitsWs(Tail(ws))

-----------------------------------------------------------------------------
(* Numbers *)

DigitVal(d) ==
    CASE d = "0" -> 0 [] d = "1" -> 1 [] d = "2" -> 2 [] d = "3" -> 3 [] d = "4" -> 4
      [] d = "5" -> 5 [] d = "6" -> 6 [] d = "7" -> 7 [] d = "8" -> 8 [] d = "9" -> 9

\* int() of a run of digits
RECURSIVE ParseInt(_)
ParseInt(ds) ==
    IF ds = <<>> THEN 0 ELSE 10 * ParseInt(SubSeq(ds, 1, Len(ds) - 1)) + DigitVal(ds[Len(ds)])

\* float() of the text of a group \d+(?:\.\d+)? , in hundredths.  The documents
\* write at most two decimals, so the value is exact.
ParseFloat(ds) ==
    LET dot == {i \in 1..Len(ds) : ds[i] = "."}
    IN IF dot = {} THEN 100 * ParseInt(ds)
       ELSE LET p == CHOOSE i \in dot : TRUE
                frac == SubSeq(ds, p + 1, Len(ds))
            IN 100 * ParseInt(SubSeq(ds, 1, p - 1))
               + (IF Len(frac) = 1 THEN 10 * ParseInt(frac) ELSE ParseInt(SubSeq(frac, 1, 2)))

\* round(): the integer nearest to num / den, ties to the even one
RoundDiv(num, den) ==
    LET q == num \div den
        r == num % den
    IN IF 2 * r < den THEN q
       ELSE IF 2 * r > den THEN q + 1
       ELSE IF q % 2 = 0 THEN q ELSE q + 1

-----------------------------------------------------------------------------
(* Groundwater detector *)

GwAnchor == Alt(<<Lits(<<"groundwater">>), Lits(<<"water", " ", "table">>)>>)

\* r'groundwater (?:was )?not encountered'
GW_NEGATIVE ==
    <<Lit("groundwater"), Lit(" "), Opt(<<Lit("was"), Lit(" ")>>), Lit("not"), Lit(" "),
      Lit("encountered")>>

\* r'(groundwater|water table)[^.\n]{0,60}?(<|less than|~|at|approx)[^.\n]{0,10}?5\s*ft'
GW_SHALLOW ==
    <<Open(1), GwAnchor, Close(1), RepLazy("line", 0, 60),
      Open(2), Alt(<<Lits(<<"<">>), Lits(<<"less", " ", "than">>), Lits(<<"~">>),
                     Lits(<<"at">>), Lits(<<"approx">>)>>), Close(2),
      RepLazy("line", 0, 10), Lit("5"), Star("space"), Lit("ft")>>

\* r'(groundwater|water table)[^.\n]{0,60}?(\d+(?:\.\d+)?)\s*ft'
GW_DEPTH ==
    <<Open(1), GwAnchor, Close(1), RepLazy("line", 0, 60),
      Open(2), Plus("digit"), Opt(<<Lit("."), Plus("digit")>>), Close(2),
      Star("space"), Lit("ft")>>

\* r'(water table|groundwater)[^.\n]{0,60}?(exceeds|>\s*|greater than)\s*6(\.5)?\s*ft'
GW_EXCEEDS ==
    <<Open(1), Alt(<<Lits(<<"water", " ", "table">>), Lits(<<"groundwater">>)>>), Close(1),
      RepLazy("line", 0, 60),
      Alt(<<Lits(<<"exceeds">>), <<Lit(">"), Star("space")>>, Lits(<<"greater", " ", "than">>)>>),
      Star("space"), Lit("6"), Opt(<<Lit("."), Lit("5")>>), Star("space"), Lit("ft")>>

\* the verdict of the depth rule on its match m
DepthVerdict(t, m) == IF ParseFloat(Group(t, m, 2)) < 500 THEN "Yes" ELSE "No"

\* find_groundwater with the explicit shallow wording tried before the negative phrase
find_groundwater_shallow_first(txt) ==
    The({IF Search(t, TRUE, GW_SHALLOW).ok THEN "Yes"
         ELSE IF Search(t, FALSE, GW_NEGATIVE).ok THEN "No"
         ELSE The({IF m.ok THEN DepthVerdict(t, m) ELSE "No" : m \in {Search(t, TRUE, GW_DEPTH)}}) :
         t \in {lower(txt)}})

find_groundwater(txt) ==
    The({IF Search(t, FALSE, GW_NEGATIVE).ok THEN "No"
         ELSE IF Search(t, TRUE, GW_SHALLOW).ok THEN "Yes"
         ELSE The({IF m.ok THEN DepthVerdict(t, m)
                   ELSE IF Search(t, FALSE, GW_EXCEEDS).ok THEN "No"
                   ELSE "No" :
                   m \in {Search(t, TRUE, GW_DEPTH)}}) :
         t \in {lower(txt)}})

-----------------------------------------------------------------------------
(* Soil drainage helpers, USCS parsing and drainage summary *)

USCS_DRAIN(c) ==
    CASE c \in {"GW", "SW"} -> "Excellent"
      [] c \in {"GP", "SP"} -> "Good"
      [] c \in {"GM", "SM"} -> "Moderate"
      [] c \in {"GC", "SC", "ML", "CL"} -> "Poor"
      [] c \in {"MH", "CH"} -> "Very Poor"
      [] c \in {"OL", "OH", "PT"} -> "Unstable"

RANK(q) ==
    CASE q = "Excellent" -> 4 [] q = "Good" -> 3 [] q = "Moderate" -> 2
      [] q = "Poor" -> 1 [] q = "Very Poor" -> 0 [] q = "Unstable" -> -1

\* the keys of USCS_NAMES
USCS_NAMES ==
    {"GW", "GP", "GM", "GC", "SW", "SP", "SM", "SC", "ML", "CL", "MH", "CH", "OL", "OH", "PT"}

\* r'\b(?:SC-SM|GW|GP|GM|GC|SW|SP|SM|SC|ML|CL|MH|CH|OL|OH|PT)\b'
USCS_PATTERN ==
    <<WordB,
      Alt(<<Lits(<<"SC", "-", "SM">>), Lits(<<"GW">>), Lits(<<"GP">>), Lits(<<"GM">>),
            Lits(<<"GC">>), Lits(<<"SW">>), Lits(<<"SP">>), Lits(<<"SM">>), Lits(<<"SC">>),
            Lits(<<"ML">>), Lits(<<"CL">>), Lits(<<"MH">>), Lits(<<"CH">>), Lits(<<"OL">>),
            Lits(<<"OH">>), Lits(<<"PT">>)>>),
      WordB>>

\* r'\b(GW|SW|GP|SP|GM|SM|GC|SC|ML|CL|MH|CH|OL|OH|PT)\b'
DRAIN_CODE_PATTERN ==
    <<WordB, Open(1),
      Alt(<<Lits(<<"GW">>), Lits(<<"SW">>), Lits(<<"GP">>), Lits(<<"SP">>), Lits(<<"GM">>),
            Lits(<<"SM">>), Lits(<<"GC">>), Lits(<<"SC">>), Lits(<<"ML">>), Lits(<<"CL">>),
            Lits(<<"MH">>), Lits(<<"CH">>), Lits(<<"OL">>), Lits(<<"OH">>), Lits(<<"PT">>)>>),
      Close(1), WordB>>

\* re.findall of a pattern without groups: the matched texts
FindAll(t, ic, nodes) ==
    The({[i \in 1..Len(ms) |-> SubSeq(t, ms[i].start, ms[i].end - 1)] :
         ms \in {FindIter(t, ic, nodes)}})

\* x in t, for a phrase x and a text t
Contains(t, x) == \E i \in 1..(Len(t) - Len(x) + 1) : SubSeq(t, i, i + Len(x) - 1) = x

\* set(re.findall(...)) on the upper-cased text
Found(tU) ==
    The({{Group(tU, ms[i], 1)[1] : i \in 1..Len(ms)} :
         ms \in {FindIter(tU, FALSE, DRAIN_CODE_PATTERN)}})

\* the worst quality of the codes found and, failing codes, the keywords
Inferred(found, t) ==
    IF found # {}
    THEN LET worst == CHOOSE c \in found : \A d \in found : RANK(USCS_DRAIN(c)) <= RANK(USCS_DRAIN(d))
         IN [overall |-> "Mix", codes |-> found, quality |-> USCS_DRAIN(worst)]
    ELSE IF \E x \in {Words(<<"silty", "clay">>), <<"mh">>, <<"ml">>,
                      Words(<<"high", "plasticity">>), Words(<<"low", "permeability">>)} :
               Contains(t, x)
    THEN [overall |-> "Not well-draining (keyword inference)"]
    ELSE IF \E x \in {<<"sand">>, <<"gravel">>, <<"well", "-", "draining">>,
                      Words(<<"high", "permeability">>)} :
               Contains(t, x)
    THEN [overall |-> "Likely well-draining (keyword inference)"]
    ELSE [overall |-> "Unclear - needs review"]

assess_drainage(txt) ==
    The({Inferred(found, t) : found \in {Found(upper(txt))}, t \in {lower(txt)}})

\* Expand splitting every compound, whatever collapse_compounds is
RECURSIVE Expand_always_split(_, _)
Expand_always_split(all_codes, collapse_compounds) ==
    The({IF codes = <<>> THEN <<>>
         ELSE LET kept == SelectSeq(Head(codes), LAMBDA p : p \in USCS_NAMES)
              IN [i \in 1..Len(kept) |-> <<kept[i]>>]
                 \o Expand_always_split(Tail(codes), collapse_compounds) :
         codes \in {all_codes}})

\* the loop over all_codes: a compound is split when collapse_compounds is set.
\* A code is the sequence of its symbols: <<"GW">>, <<"SC", "-", "SM">>.
RECURSIVE Expand(_, _)
Expand(all_codes, collapse_compounds) ==
    The({IF codes = <<>> THEN <<>>
         ELSE LET code == Head(codes)
                  parts == SelectSeq(code, LAMBDA p : p # "-")
              IN (IF Contains(code, <<"-">>) /\ collapse_compounds
                  THEN LET kept == SelectSeq(parts, LAMBDA p : p \in USCS_NAMES)
                       IN [i \in 1..Len(kept) |-> <<kept[i]>>]
                  ELSE <<code>>)
                 \o Expand(Tail(codes), collapse_compounds) :
         codes \in {all_codes}})

\* Counter(...): the distinct codes in the order first seen
RECURSIVE Distinct(_)
Distinct(cs) ==
    IF cs = <<>> THEN <<>>
    ELSE The({IF \E i \in 1..Len(init) : init[i] = c THEN init ELSE Append(init, c) :
              init \in {Distinct(SubSeq(cs, 1, Len(cs) - 1))}, c \in {cs[Len(cs)]}})

Count(cs, c) == Cardinality({i \in 1..Len(cs) : cs[i] = c})

\* Counter.most_common(): by descending count, equal counts in the order first seen
RECURSIVE MostCommon(_, _)
MostCommon(keys, cs) ==
    The({IF ks = <<>> THEN <<>>
         ELSE The({<<ks[best]>>
                   \o MostCommon(SubSeq(ks, 1, best - 1) \o SubSeq(ks, best + 1, Len(ks)), cs) :
                   best \in {CHOOSE i \in 1..Len(ks) :
                               /\ \A j \in 1..Len(ks) : Count(cs, ks[j]) <= Count(cs, ks[i])
                               /\ \A j \in 1..(i - 1) : Count(cs, ks[j]) < Count(cs, ks[i])}}) :
         ks \in {keys}})

\* Total counting every match, the dropped compounds too
Total_of_matches(counted, expanded) == Len(expanded)

\* total = sum(counts.values()): the codes counted, the dropped ones left out
Total(counted, expanded) == Len(counted)

\* round(100 * cnt / total, 2), in hundredths of a percent
Percent(cnt, total) == RoundDiv(10000 * cnt, total)

\* [c for c in expanded if c in USCS_NAMES], each code by its name
Counted(expanded) ==
    SelectSeq([i \in 1..Len(expanded) |->
                  IF Len(expanded[i]) = 1 THEN expanded[i][1] ELSE "SC-SM"],
              LAMBDA c : c \in USCS_NAMES)

\* the rows of the table, in the order of most_common(); no row when total is 0
Rows(counted, total) ==
    IF total = 0 THEN <<>>
    ELSE The({[i \in 1..Len(order) |->
                  [code |-> order[i], count |-> Count(counted, order[i]),
                   percent |-> Percent(Count(counted, order[i]), total)]] :
              order \in {MostCommon(Distinct(counted), counted)}})

extract_uscs_frequencies(txt, collapse_compounds) ==
    The({The({Rows(counted, Total(counted, expanded)) : counted \in {Counted(expanded)}}) :
         expanded \in {Expand(FindAll(upper(txt), FALSE, USCS_PATTERN), collapse_compounds)}})

BUCKET(c) ==
    CASE c \in {"GW", "SW"} -> "excellent"
      [] c \in {"GP", "SP"} -> "good"
      [] c \in {"GM", "SM"} -> "moderate"
      [] c \in {"GC", "SC", "ML", "CL"} -> "poor"
      [] c \in {"MH", "CH"} -> "very_poor"
      [] c \in {"OL", "OH", "PT"} -> "unstable"

Buckets == {"excellent", "good", "moderate", "poor", "very_poor", "unstable"}

RECURSIVE SumPercent(_, _)
SumPercent(df, cat) ==
    IF df = <<>> THEN 0
    ELSE (IF BUCKET(Head(df).code) = cat THEN Head(df).percent ELSE 0) + SumPercent(Tail(df), cat)

\* Overall with bad > 60 for bad >= 60
Overall_strict(bad, ok) ==
    IF bad > 6000 THEN "Overall NOT well-draining"
    ELSE IF bad >= 4000 THEN "Mostly not well-draining"
    ELSE IF ok >= 5000 /\ bad < 3000 THEN "Overall well-draining tendency"
    ELSE "Mixed drainage"

\* the decision rule on bad and ok, both in hundredths of a percent
Overall(bad, ok) ==
    IF bad >= 6000 THEN "Overall NOT well-draining"
    ELSE IF bad >= 4000 THEN "Mostly not well-draining"
    ELSE IF ok >= 5000 /\ bad < 3000 THEN "Overall well-draining tendency"
    ELSE "Mixed drainage"

\* The verdict is the label and the mix; the source joins them into one string,
\* printing each total with one decimal.
drainage_from_uscs_percentages(df, fallback_text) ==
    IF df = <<>> THEN assess_drainage(fallback_text)
    ELSE LET totals == [cat \in Buckets |-> SumPercent(df, cat)]
             bad == totals["poor"] + totals["very_poor"] + totals["unstable"]
             ok == totals["excellent"] + totals["good"]
         IN [overall |-> Overall(bad, ok), mix |-> totals]

-----------------------------------------------------------------------------
(* Borings vs CPT sections *)

GeoId == <<Lit("GEO-"), Rep("digit", 3, 3)>>                        \* GEO-\d{3}

\* CPT\s+(?:SOUNDING|LOG|SOUNDING\s+ID|RESULTS)
CptLabel ==
    <<Lit("CPT"), Plus("space"),
      Alt(<<Lits(<<"SOUNDING">>), Lits(<<"LOG">>), LitsWs(<<"SOUNDING", "ID">>),
            Lits(<<"RESULTS">>)>>)>>

\* (?:LOG\s+OF\s+CPT\s+SOUNDING|CPT\s+(?:SOUNDING|LOG|SOUNDING\s+ID|RESULTS))
CptHeaderLabel == <<Alt(<<LitsWs(<<"LOG", "OF", "CPT", "SOUNDING">>), CptLabel>>)>>

\* r'LOG\s+OF\s+BORING\s+(GEO-\d{3})(.*?)(?=LOG\s+OF\s+BORING\s+GEO-\d{3}|'
\* r'LOG\s+OF\s+CPT|CPT\s+(?:SOUNDING|LOG|SOUNDING\s+ID|RESULTS)|Appendix|$)'
BORING_PAT ==
    LitsWs(<<"LOG", "OF", "BORING">>) \o <<Plus("space"), Open(1)>> \o GeoId
    \o <<Close(1), Open(2), StarLazy("any"), Close(2),
         Look(<<Alt(<<LitsWs(<<"LOG", "OF", "BORING">>) \o <<Plus("space")>> \o GeoId,
                      LitsWs(<<"LOG", "OF", "CPT">>),
                      CptLabel,
                      Lits(<<"Appendix">>),
                      <<Eos>>>>)>>)>>

\* r'(?:LOG\s+OF\s+CPT\s+SOUNDING|CPT\s+(?:SOUNDING|LOG|SOUNDING\s+ID|RESULTS))\s+'
\* r'(GEO-\d{3})(.*?)(?=(?:LOG\s+OF\s+CPT\s+SOUNDING|'
\* r'CPT\s+(?:SOUNDING|LOG|SOUNDING\s+ID|RESULTS))\s+GEO-\d{3}'
\* r'|LOG\s+OF\s+BORING\s+GEO-\d{3}|Appendix|$)'
CPT_PAT ==
    CptHeaderLabel \o <<Plus("space"), Open(1)>> \o GeoId
    \o <<Close(1), Open(2), StarLazy("any"), Close(2),
         Look(<<Alt(<<CptHeaderLabel \o <<Plus("space")>> \o GeoId,
                      LitsWs(<<"LOG", "OF", "BORING">>) \o <<Plus("space")>> \o GeoId,
                      Lits(<<"Appendix">>),
                      <<Eos>>>>)>>)>>

\* for m in pat.finditer(text): yield m.group(1).upper(), m.group(2)
Sections(t, pat) ==
    The({[i \in 1..Len(ms) |-> [sid |-> upper(Group(t, ms[i], 1)), sec |-> Group(t, ms[i], 2)]] :
         ms \in {FindIter(t, TRUE, pat)}})

iter_boring_sections(t) == Sections(t, BORING_PAT)

iter_cpt_sections(t) == Sections(t, CPT_PAT)

-----------------------------------------------------------------------------
(* Shallow refusal counters, with fallbacks *)

Number == <<Plus("digit"), Opt(<<Lit("."), Plus("digit")>>)>>        \* \d+(?:\.\d+)?
FeetOrFt == Alt(<<Lits(<<"feet">>), Lits(<<"ft">>)>>)               \* (?:feet|ft)

\* r'\brefusal[^.\n]{0,160}?(\d+(?:\.\d+)?)\s*(?:feet|ft)\b'
REFUSAL_NUM_PAT ==
    <<WordB, Lit("refusal"), RepLazy("line", 0, 160), Open(1)>> \o Number
    \o <<Close(1), Star("space"), FeetOrFt, WordB>>

\* threshold_ft = 8.0, in hundredths of a foot
threshold_ft == 800

\* a summary (total, shallow, pct, ids_with_depth); pct in tenths of a percent.
\* error names the exception raised instead of returning ("" when none is) and
\* via the function whose return statement produced the summary.
Summary(total, shallow, pct, ids, error, via) ==
    [total |-> total, shallow |-> shallow, pct |-> pct, ids |-> ids, error |-> error,
     via |-> via]

\* round(100 * shallow / divisor, 1): the division raises on a zero divisor
Quotient(shallow, divisor) ==
    IF divisor = 0 THEN [error |-> "ZeroDivisionError", pct |-> 0]
    ELSE [error |-> "", pct |-> RoundDiv(1000 * shallow, divisor)]

\* pct = round(100 * shallow / total, 1) if total else 0.0
PrimaryPct(shallow, total) ==
    IF total # 0 THEN Quotient(shallow, total) ELSE [error |-> "", pct |-> 0]

\* FallbackPct without its guards
FallbackPct_unguarded(shallow, total) == Quotient(shallow, total)

\* pct = round(100 * shallow / (total if total else 1), 1) if total else 0.0
FallbackPct(shallow, total) ==
    IF total # 0 THEN Quotient(shallow, IF total # 0 THEN total ELSE 1)
    ELSE [error |-> "", pct |-> 0]

\* ids_with_depth[sid] = depth
Put(ids, sid, depth) ==
    [x \in DOMAIN ids \cup {sid} |-> IF x = sid THEN depth ELSE ids[x]]

\* if depth < threshold_ft: shallow += 1
IsShallow(depth, threshold) == depth < threshold

\* the loop of _count_shallow_refusals over the sections: [total, shallow, ids]
RECURSIVE CountLoop(_, _)
CountLoop(sections, threshold) ==
    The({IF secs = <<>> THEN [total |-> 0, shallow |-> 0, ids |-> <<>>]
         ELSE The({IF m.ok
                   THEN LET depth == ParseFloat(Group(secs[Len(secs)].sec, m, 1))
                        IN [total |-> acc.total + 1,
                            shallow |-> acc.shallow + (IF IsShallow(depth, threshold) THEN 1 ELSE 0),
                            ids |-> Put(acc.ids, secs[Len(secs)].sid, depth)]
                   ELSE [acc EXCEPT !.total = acc.total + 1] :
                   acc \in {CountLoop(SubSeq(secs, 1, Len(secs) - 1), threshold)},
                   m \in {Search(secs[Len(secs)].sec, TRUE, REFUSAL_NUM_PAT)}}) :
         secs \in {sections}})

_count_shallow_refusals(sections, threshold) ==
    The({LET q == PrimaryPct(r.shallow, r.total)
         IN Summary(r.total, r.shallow, q.pct, r.ids, q.error, "primary") :
         r \in {CountLoop(sections, threshold)}})

\* the pairs (sid, depth) of a findall with two groups, folded into
\* [shallow, ids] as the fallback loops do
RECURSIVE FoldPairs(_, _, _)
FoldPairs(t, pairs, threshold) ==
    The({IF ms = <<>> THEN [shallow |-> 0, ids |-> <<>>]
         ELSE The({LET d == ParseFloat(Group(t, ms[Len(ms)], 2))
                   IN [shallow |-> acc.shallow + (IF IsShallow(d, threshold) THEN 1 ELSE 0),
                       ids |-> Put(acc.ids, upper(Group(t, ms[Len(ms)], 1)), d)] :
                   acc \in {FoldPairs(t, SubSeq(ms, 1, Len(ms) - 1), threshold)}}) :
         ms \in {pairs}})

\* r'CPT\s+soundings?\s+(?:were\s+)?performed\s+at\s+(\d+)\s+locations'
CPT_TOTAL_PAT ==
    <<Lit("CPT"), Plus("space"), Lit("sounding"), Opt(<<Lit("s")>>), Plus("space"),
      Opt(<<Lit("were"), Plus("space")>>), Lit("performed"), Plus("space"), Lit("at"),
      Plus("space"), Open(1), Plus("digit"), Close(1), Plus("space"), Lit("locations")>>

\* r'(Table\s*2[^.\n]*?CPT\s+Sounding\s+Shallow\s+Refusal\s+Depths.*?)(?:Table\s*3|3\.\d|Appendix|$)'
CPT_TABLE_PAT ==
    <<Open(1), Lit("Table"), Star("space"), Lit("2"), StarLazy("line")>>
    \o LitsWs(<<"CPT", "Sounding", "Shallow", "Refusal", "Depths">>)
    \o <<StarLazy("any"), Close(1),
         Alt(<<<<Lit("Table"), Star("space"), Lit("3")>>,
               <<Lit("3"), Lit("."), Rep("digit", 1, 1)>>,
               Lits(<<"Appendix">>),
               <<Eos>>>>)>>

\* r'(GEO-\d{3}).{0,80}?(\d+(?:\.\d+)?)\s*(?:feet|ft)?'
CPT_ROW_PAT ==
    <<Open(1)>> \o GeoId \o <<Close(1), RepLazy("any", 0, 80), Open(2)>> \o Number
    \o <<Close(2), Star("space"), Opt(<<FeetOrFt>>)>>

\* the rows of the Table 2 block, when the text has one: [shallow, ids]
TableRows(t, threshold) ==
    The({IF m_tbl.ok
         THEN The({FoldPairs(block, FindIter(block, TRUE, CPT_ROW_PAT), threshold) :
                   block \in {Group(t, m_tbl, 1)}})
         ELSE [shallow |-> 0, ids |-> <<>>] :
         m_tbl \in {Search(t, TRUE, CPT_TABLE_PAT)}})

_cpt_fallback_counts(t, threshold) ==
    The({LET total == IF m_total.ok THEN ParseInt(Group(t, m_total, 1)) ELSE 0
             q == FallbackPct(r.shallow, total)
         IN Summary(total, r.shallow, q.pct, r.ids, q.error, "fallback") :
         m_total \in {Search(t, TRUE, CPT_TOTAL_PAT)}, r \in {TableRows(t, threshold)}})

count_cpt_refusals_under_8ft(t, threshold) ==
    The({IF primary.error # "" THEN primary
         ELSE IF primary.total = 0 THEN _cpt_fallback_counts(t, threshold)
         ELSE primary :
         primary \in {_count_shallow_refusals(iter_cpt_sections(t), threshold)}})

\* r'Soil\s+borings?\s+were\s+completed\s+at\s+(\d+)\s+locations'
BORING_TOTAL_PAT ==
    <<Lit("Soil"), Plus("space"), Lit("boring"), Opt(<<Lit("s")>>), Plus("space"),
      Lit("were"), Plus("space"), Lit("completed"), Plus("space"), Lit("at"), Plus("space"),
      Open(1), Plus("digit"), Close(1), Plus("space"), Lit("locations")>>

\* r'A\s+total\s+of\s+(\d+)\s+soil\s+borings?\s+were?\s+completed'
BORING_SUP_PAT ==
    <<Lit("A"), Plus("space"), Lit("total"), Plus("space"), Lit("of"), Plus("space"),
      Open(1), Plus("digit"), Close(1), Plus("space"), Lit("soil"), Plus("space"),
      Lit("boring"), Opt(<<Lit("s")>>), Plus("space"),
      Alt(<<Lits(<<"were">>), Lits(<<"wer">>)>>), Plus("space"), Lit("completed")>>

\* r'(GEO-\d{3}).{0,120}?refusal[^.\n]{0,120}?(\d+(?:\.\d+)?)\s*(?:feet|ft)'
BORING_ROW_PAT ==
    <<Open(1)>> \o GeoId \o <<Close(1), RepLazy("any", 0, 120), Lit("refusal"),
      RepLazy("line", 0, 120), Open(2)>> \o Number \o <<Close(2), Star("space"), FeetOrFt>>

\* total += int(m.group(1)) for every narrative count
RECURSIVE SumCounts(_, _)
SumCounts(t, counts) ==
    The({IF ms = <<>> THEN 0 ELSE ParseInt(Group(t, Head(ms), 1)) + SumCounts(t, Tail(ms)) :
         ms \in {counts}})

_boring_fallback_counts(t, threshold) ==
    The({LET q == FallbackPct(r.shallow, total)
         IN Summary(total, r.shallow, q.pct, r.ids, q.error, "fallback") :
         total \in {The({SumCounts(t, FindIter(t, TRUE, BORING_TOTAL_PAT))
                          + (IF m_sup.ok THEN ParseInt(Group(t, m_sup, 1)) ELSE 0) :
                         m_sup \in {Search(t, TRUE, BORING_SUP_PAT)}})},
         r \in {FoldPairs(t, FindIter(t, TRUE, BORING_ROW_PAT), threshold)}})

\* count_boring_refusals_under_8ft falling back when no shallow refusal was counted
count_boring_refusals_fallback_on_no_shallow(t, threshold) ==
    The({IF primary.error # "" THEN primary
         ELSE IF primary.shallow = 0 THEN _boring_fallback_counts(t, threshold)
         ELSE primary :
         primary \in {_count_shallow_refusals(iter_boring_sections(t), threshold)}})

count_boring_refusals_under_8ft(t, threshold) ==
    The({IF primary.error # "" THEN primary
         ELSE IF primary.total = 0 THEN _boring_fallback_counts(t, threshold)
         ELSE primary :
         primary \in {_count_shallow_refusals(iter_boring_sections(t), threshold)}})

-----------------------------------------------------------------------------
(* Documents *)

\* the sequences over S of length at most n
SeqsUpTo(S, n) == UNION {[1..k -> S] : k \in 0..n}

\* the symbols of a document: its phrases, joined by the separator sep
RECURSIVE Render(_, _)
Render(d, sep) ==
    IF d = <<>> THEN <<>>
    ELSE IF Len(d) = 1 THEN d[1].syms
    ELSE d[1].syms \o sep \o Render(Tail(d), sep)

MaxSentences == 3

\* Sentences of a groundwater paragraph.  A mention states the depth ft100
\* (hundredths of a foot) after the anchor and a qualifier.
GwMention(anchor, lead, digits, ft100) ==
    [kind |-> "mention", ft100 |-> ft100,
     syms |-> anchor \o <<" ">> \o lead \o <<" ">> \o digits \o <<" ", "ft">>]

GwSentences ==
    { [kind |-> "negative", ft100 |-> 0,
       syms |-> Words(<<"Groundwater", "was", "not", "encountered">>)],
      [kind |-> "negative", ft100 |-> 0,
       syms |-> Words(<<"GROUNDWATER", "NOT", "ENCOUNTERED">>)],
      [kind |-> "other", ft100 |-> 0, syms |-> Words(<<"no", "seepage">>)],
      GwMention(<<"groundwater">>, Words(<<"encountered", "at">>), <<"4">>, 400),
      GwMention(<<"Groundwater">>, Words(<<"encountered", "at">>), <<"5">>, 500),
      GwMention(<<"groundwater">>, Words(<<"encountered", "at">>), <<"7">>, 700),
      GwMention(<<"groundwater">>, Words(<<"encountered", "at">>), <<"1", "5">>, 1500),
      GwMention(Words(<<"Water", "table">>), Words(<<"at", "approx">>), <<"4", ".", "5">>, 450),
      GwMention(Words(<<"water", "table">>), Words(<<"at", "approx">>), <<"2", "5">>, 2500) }

Unset == "unset"

\* The state before the first call: the document is drawn, nothing is computed.
InitWith(docs, sep) ==
    /\ doc \in docs
    /\ text = Render(doc, sep)
    /\ pc = "start"
    /\ flag = TRUE
    /\ uscs_df = <<>>
    /\ drainage = Unset
    /\ gw = Unset
    /\ yielded = <<>>
    /\ bor = Unset
    /\ cpt = Unset

\* the sentences of a paragraph end in ". "
InitGW == InitWith(SeqsUpTo(GwSentences, MaxSentences), <<".", " ">>)

\* gw = find_groundwater(text)
FindGroundwater ==
    /\ pc = "start"
    /\ gw' = find_groundwater(text)
    /\ pc' = "gw"
    /\ UNCHANGED <<doc, text, flag, uscs_df, drainage, yielded, bor, cpt>>

NextGW == FindGroundwater

SpecGW == InitGW /\ [][NextGW]_vars

MaxWords == 4

\* Words of a soil description: a code of each of the buckets excellent, good,
\* poor, very_poor and unstable (this one in lower case), the compound, whose
\* parts are of the buckets poor and moderate, and a word that is no code.
SoilWords ==
    { [syms |-> <<w>>] : w \in {"GW", "SP", "ML", "CH", "pt", "soil"} }
    \cup { [syms |-> <<"SC", "-", "SM">>] }

InitUSCS == InitWith(SeqsUpTo(SoilWords, MaxWords), <<" ">>)

\* uscs_df = extract_uscs_frequencies(text, collapse_compounds)
ExtractUscs ==
    /\ pc = "start"
    /\ \E collapse_compounds \in BOOLEAN :
         /\ flag' = collapse_compounds
         /\ uscs_df' = extract_uscs_frequencies(text, collapse_compounds)
    /\ pc' = "uscs"
    /\ UNCHANGED <<doc, text, drainage, gw, yielded, bor, cpt>>

\* drainage = drainage_from_uscs_percentages(uscs_df, text)
Drainage ==
    /\ pc = "uscs"
    /\ drainage' = drainage_from_uscs_percentages(uscs_df, text)
    /\ pc' = "drainage"
    /\ UNCHANGED <<doc, text, flag, uscs_df, gw, yielded, bor, cpt>>

NextUSCS == ExtractUscs \/ Drainage

SpecUSCS == InitUSCS /\ [][NextUSCS]_vars

MaxPhrases == 3

\* Phrases of a report with boring and CPT logs, narrative counts and a table
\* of CPT refusal depths.
Phrase(ws) == [syms |-> Words(ws)]

BoringHeader == [syms |-> Words(<<"LOG", "OF", "BORING">>) \o <<" ", "GEO-", "0", "0", "1">>]
CptHeader == [syms |-> Words(<<"CPT", "Sounding">>) \o <<" ", "GEO-", "0", "0", "2">>]
RefusalAt5 == [syms |-> Words(<<"refusal", "at", "5", "ft">>)]
IdRefusalAt3 == [syms |-> <<"geo-", "0", "0", "3", " ">> \o Words(<<"met", "Refusal", "at", "3", "ft">>)]
CptResults == [syms |-> Words(<<"see", "CPT", "results">>)]
BoringNarrative ==
    [syms |-> <<"Soil", " ", "boring", "s", " ">> \o Words(<<"were", "completed", "at", "1", "locations">>)]
CptNarrative ==
    [syms |-> <<"CPT", " ", "sounding", "s", " ">> \o Words(<<"were", "performed", "at", "1", "locations">>)]
CptTable == [syms |-> Words(<<"Table", "2", "CPT", "Sounding", "Shallow", "Refusal", "Depths">>)]
AppendixMark == [syms |-> <<"Appendix">>]

ReportPhrases ==
    {BoringHeader, CptHeader, RefusalAt5, IdRefusalAt3, CptResults, BoringNarrative,
     CptNarrative, CptTable, AppendixMark}

InitRefusal == InitWith(SeqsUpTo(ReportPhrases, MaxPhrases), <<" ">>)

\* bor = count_boring_refusals_under_8ft(text, threshold_ft=8.0)
CountBoring ==
    /\ pc = "start"
    /\ yielded' = iter_boring_sections(text)
    /\ bor' = count_boring_refusals_under_8ft(text, threshold_ft)
    /\ pc' = "boring"
    /\ UNCHANGED <<doc, text, flag, uscs_df, drainage, gw, cpt>>

\* cpt = count_cpt_refusals_under_8ft(text, threshold_ft=8.0)
CountCpt ==
    /\ pc = "boring"
    /\ yielded' = iter_cpt_sections(text)
    /\ cpt' = count_cpt_refusals_under_8ft(text, threshold_ft)
    /\ pc' = "cpt"
    /\ UNCHANGED <<doc, text, flag, uscs_df, drainage, gw, bor>>

NextRefusal == CountBoring \/ CountCpt

SpecRefusal == InitRefusal /\ [][NextRefusal]_vars

MaxSectionPhrases == 4

\* Phrases of a run of logs: headers, two of them of one boring in two
\* spellings, and refusal depths below, at and above the threshold.
LogPhrases ==
    { BoringHeader,
      [syms |-> Words(<<"Log", "of", "Boring">>) \o <<" ", "geo-", "0", "0", "1">>],
      [syms |-> Words(<<"CPT", "LOG">>) \o <<" ", "GEO-", "0", "0", "2">>],
      RefusalAt5,
      [syms |-> Words(<<"refusal", "at", "8", "ft">>)],
      [syms |-> <<"Refusal", " ", "at", " ", "1", "0", ".", "5", " ", "feet">>] }

InitSections == InitWith(SeqsUpTo(LogPhrases, MaxSectionPhrases), <<" ">>)

SpecSections == InitSections /\ [][NextRefusal]_vars

-----------------------------------------------------------------------------
(* What a document states, read off the document itself *)

\* the document's phrases equal to p
Occurrences(p) == {i \in 1..Len(doc) : doc[i] = p}

\* the words of the document that spell the code c, in any case
CodeWords(c) == {i \in 1..Len(doc) : Len(doc[i].syms) = 1 /\ UpperSym(doc[i].syms[1]) = c}

CompoundWords == {i \in 1..Len(doc) : doc[i].syms = <<"SC", "-", "SM">>}

\* the count of code c in a frequency table, 0 when it has no row
RowCount(df, c) ==
    IF \E i \in 1..Len(df) : df[i].code = c
    THEN df[CHOOSE i \in 1..Len(df) : df[i].code = c].count
    ELSE 0

RECURSIVE SumRows(_, _)
SumRows(df, codes) ==
    IF df = <<>> THEN 0
    ELSE (IF Head(df).code \in codes THEN Head(df).percent ELSE 0) + SumRows(Tail(df), codes)

BadOf(df) == SumRows(df, {"GC", "SC", "ML", "CL", "MH", "CH", "OL", "OH", "PT"})
OkOf(df) == SumRows(df, {"GW", "SW", "GP", "SP"})

Abs(x) == IF x < 0 THEN -x ELSE x

-----------------------------------------------------------------------------
(* Drainage: C1, C6, C8 *)

\* C1: for a non-empty frequency table, with bad the percents of the poor,
\* very_poor and unstable rows and ok those of the excellent and good rows, the
\* label is "Overall NOT well-draining" exactly when bad >= 60, "Mostly not
\* well-draining" exactly when 40 <= bad < 60, "Overall well-draining tendency"
\* exactly when bad < 30 and ok >= 50, and "Mixed drainage" otherwise; "GW GW SP"
\* gets the well-draining label and "CH CH CH ML" the NOT well-draining one.
C1_LabelByFirstRule ==
    (pc = "drainage" /\ uscs_df # <<>>) =>
        LET bad == BadOf(uscs_df)
            ok == OkOf(uscs_df)
        IN /\ drainage.overall =
                 (CASE bad >= 6000 -> "Overall NOT well-draining"
                    [] bad < 6000 /\ bad >= 4000 -> "Mostly not well-draining"
                    [] bad < 3000 /\ ok >= 5000 -> "Overall well-draining tendency"
                    [] OTHER -> "Mixed drainage")
           /\ text = Words(<<"GW", "GW", "SP">>)
                 => drainage.overall = "Overall well-draining tendency"
           /\ text = Words(<<"CH", "CH", "CH", "ML">>)
                 => drainage.overall = "Overall NOT well-draining"

\* bad is exactly 60 (one ML against two split compounds) and the label is the
\* NOT well-draining one
C1_Witness ==
    /\ pc = "drainage"
    /\ uscs_df # <<>>
    /\ BadOf(uscs_df) = 6000
    /\ drainage.overall = "Overall NOT well-draining"

\* C6 as stated: the percents of a non-empty frequency table sum to exactly 100.
C6_SumIsExactly100 ==
    (pc = "uscs" /\ uscs_df # <<>>) => SumRows(uscs_df, USCS_NAMES) = 10000

\* C6 as amended: the percents of a non-empty frequency table sum to 100 within
\* 0.005 for every row of the table.
C6_SumWithinRounding ==
    (pc = "uscs" /\ uscs_df # <<>>) =>
        2 * Abs(SumRows(uscs_df, USCS_NAMES) - 10000) <= Len(uscs_df)

\* three codes once each: three rows of 33.33, which sum to 99.99
C6_Witness ==
    /\ pc = "uscs"
    /\ Len(uscs_df) = 3
    /\ \A i \in 1..3 : uscs_df[i].percent = 3333
    /\ SumRows(uscs_df, USCS_NAMES) = 9999

\* C8: every compound SC-SM of the text adds one count to SC and one to SM when
\* collapse_compounds is true and no count to any row when it is false; every
\* other row counts the words that spell its code.
C8_CompoundCounts ==
    pc = "uscs" =>
        \A c \in USCS_NAMES :
            RowCount(uscs_df, c) =
                Cardinality(CodeWords(c))
                + (IF flag /\ c \in {"SC", "SM"} THEN Cardinality(CompoundWords) ELSE 0)

\* collapse_compounds is false, the compound is the only code of the text, and
\* the table is empty
C8_Witness ==
    /\ pc = "uscs"
    /\ ~flag
    /\ CompoundWords # {}
    /\ \A c \in USCS_NAMES : CodeWords(c) = {}
    /\ uscs_df = <<>>

-----------------------------------------------------------------------------
(* Groundwater: C4, C5 *)

Negatives == {i \in 1..Len(doc) : doc[i].kind = "negative"}
Mentions == {i \in 1..Len(doc) : doc[i].kind = "mention"}

\* C4: a text without the negative phrase whose only groundwater mention states
\* the depth N gets "Yes" if and only if N < 5.0.
C4_YesIffShallowerThan5 ==
    (pc = "gw" /\ Negatives = {} /\ Cardinality(Mentions) = 1) =>
        LET i == CHOOSE j \in Mentions : TRUE
        IN (gw = "Yes") <=> (doc[i].ft100 < 500)

\* C5: a text that holds the negative phrase, in any letter case, gets "No",
\* whatever depths are mentioned before or after it.
C5_NegativePhraseWins ==
    (pc = "gw" /\ Negatives # {}) => gw = "No"

\* the negative phrase stands between two mentions of a depth of 4 ft
C5_Witness ==
    /\ pc = "gw"
    /\ Len(doc) = 3
    /\ doc[1].kind = "mention" /\ doc[1].ft100 = 400
    /\ doc[2].kind = "negative"
    /\ doc[3].kind = "mention" /\ doc[3].ft100 = 400
    /\ gw = "No"

-----------------------------------------------------------------------------
(* Sections and refusal counts: C2, C3, C7, C9, C10 *)

\* the sections of those yielded whose body has a refusal-depth match
Matched == {i \in 1..Len(yielded) : Search(yielded[i].sec, TRUE, REFUSAL_NUM_PAT).ok}

\* the depth matched in the body of section i
DepthIn(i) ==
    LET sec == yielded[i].sec
    IN ParseFloat(Group(sec, Search(sec, TRUE, REFUSAL_NUM_PAT), 1))

\* C2: in the primary path total is the number of sections, the depth map holds
\* one Refusal Record per section whose body has a refusal-depth match (that
\* section's identifier with that section's depth), shallow is the number of
\* those sections whose depth is strictly below 8.0, and the sections without a
\* match add to total only.
C2_OneRecordPerMatchedSection ==
    (pc = "boring" /\ bor.via = "primary") =>
        /\ bor.total = Len(yielded)
        /\ Cardinality(DOMAIN bor.ids) = Cardinality(Matched)
        /\ \A i \in Matched :
              yielded[i].sid \in DOMAIN bor.ids /\ bor.ids[yielded[i].sid] = DepthIn(i)
        /\ bor.shallow = Cardinality({i \in Matched : DepthIn(i) < 800})

\* the narrative totals a document states
BoringNarrativeTotal == Cardinality(Occurrences(BoringNarrative))
CptNarrativeTotal == IF Occurrences(CptNarrative) # {} THEN 1 ELSE 0

\* a summary made from the sections alone
FromSectionsOnly(r) ==
    /\ r.via = "primary"
    /\ r.total = Len(yielded)
    /\ DOMAIN r.ids \subseteq {yielded[i].sid : i \in 1..Len(yielded)}

\* C3: each counter returns the fallback result if and only if its segmenter
\* yielded no section; with at least one section the result is made from the
\* sections alone (its total their number, its records theirs), and with none
\* its total is the narrative total.
C3_FallbackIffNoSections ==
    /\ pc = "boring" =>
          /\ (bor.via = "fallback") <=> (yielded = <<>>)
          /\ yielded # <<>> => FromSectionsOnly(bor)
          /\ yielded = <<>> => bor.total = BoringNarrativeTotal
    /\ pc = "cpt" =>
          /\ (cpt.via = "fallback") <=> (yielded = <<>>)
          /\ yielded # <<>> => FromSectionsOnly(cpt)
          /\ yielded = <<>> => cpt.total = CptNarrativeTotal

\* one boring section, with no refusal depth, in a text that holds a narrative
\* total and an identifier with a shallow refusal depth: the summary is the
\* primary one, with no record
C3_Witness ==
    /\ pc = "boring"
    /\ Len(yielded) = 1
    /\ Occurrences(BoringNarrative) # {}
    /\ Occurrences(IdRefusalAt3) # {}
    /\ bor.via = "primary"
    /\ bor.total = 1
    /\ bor.shallow = 0
    /\ bor.ids = <<>>

ZeroTotalIsZeroPercent(r) == r.error = "" /\ (r.total = 0 => r.pct = 0)

\* C7: no percent computation raises, and a returned total of 0 comes with a
\* percent of 0.0, for the boring and the CPT counter, whichever path returned.
C7_ZeroTotalGuarded ==
    /\ pc \in {"boring", "cpt"} => ZeroTotalIsZeroPercent(bor)
    /\ pc = "cpt" => ZeroTotalIsZeroPercent(cpt)

\* the fallback found no narrative total, and its scan of the text recorded a
\* depth and a shallow refusal
C7_Witness ==
    /\ pc = "boring"
    /\ bor.via = "fallback"
    /\ bor.total = 0
    /\ bor.shallow > 0
    /\ bor.ids # <<>>
    /\ bor.pct = 0

\* A header, as the documents write it: a label, one space, GEO- and three digits.
StartsWith(t, i, x) == i + Len(x) - 1 <= Len(t) /\ SubSeq(lower(t), i, i + Len(x) - 1) = x

IdAt(t, i) ==
    /\ i + 3 <= Len(t)
    /\ LowerSym(t[i]) = "geo-"
    /\ \A j \in 1..3 : t[i + j] \in Digits

BoringLabels == {Words(<<"log", "of", "boring">>)}

CptLabels ==
    {Words(<<"log", "of", "cpt", "sounding">>), Words(<<"cpt", "sounding">>),
     Words(<<"cpt", "log">>), Words(<<"cpt", "sounding", "id">>), Words(<<"cpt", "results">>)}

\* the labels of the set that make a header at position i
HeadersAt(t, i, labels) ==
    {x \in labels : StartsWith(t, i, x \o <<" ">>) /\ IdAt(t, i + Len(x) + 1)}

\* the positions from from on where a section ends: a header of either kind, an
\* Appendix, the end of the text
Boundaries(t, from) ==
    {j \in from..(Len(t) + 1) :
        \/ j = Len(t) + 1
        \/ HeadersAt(t, j, BoringLabels \cup CptLabels) # {}
        \/ StartsWith(t, j, <<"appendix">>)}

\* the sections of the text whose header has a label of the set, from the
\* position from on, in the order of the text
RECURSIVE SectionsStated(_, _, _)
SectionsStated(t, from, labels) ==
    LET heads == {i \in from..Len(t) : HeadersAt(t, i, labels) # {}}
    IN IF heads = {} THEN <<>>
       ELSE LET h == Min(heads)
                label == CHOOSE x \in HeadersAt(t, h, labels) :
                            \A y \in HeadersAt(t, h, labels) : Len(y) <= Len(x)
                id == h + Len(label) + 1
                stop == Min(Boundaries(t, id + 4))
            IN <<[sid |-> upper(SubSeq(t, id, id + 3)), sec |-> SubSeq(t, id + 4, stop - 1)]>>
               \o SectionsStated(t, stop, labels)

\* C9: each segmenter yields, in the order of the text and with upper-case
\* identifiers, one section for each of its headers, whose body is the text
\* from just after the header up to the next header of either kind, the next
\* Appendix or the end of the text.
C9_BodyUpToNextBoundary ==
    /\ pc = "boring" => yielded = SectionsStated(text, 1, BoringLabels)
    /\ pc = "cpt" => yielded = SectionsStated(text, 1, CptLabels)

ShallowWithinTotal(r) == r.total > 0 => (r.shallow <= r.total /\ r.pct \in 0..1000)

\* C10: a summary with total > 0 has shallow <= total, so that its percent lies
\* between 0 and 100, whichever path returned it.
C10_ShallowWithinTotal ==
    /\ pc \in {"boring", "cpt"} => ShallowWithinTotal(bor)
    /\ pc = "cpt" => ShallowWithinTotal(cpt)

====
